---- MODULE Spec2Model ----
(***************************************************************************)
(* TripMind: the pipeline that turns the generation source's free-form     *)
(* text into a Trip record, enriches it and displays it.                   *)
(*                                                                         *)
(*   SpecSummary  the TripSummary component: sanitizer chain, envelope     *)
(*                unwrap, field defaulting, summary coercion               *)
(*   SpecGenerate the generate handler: decoding of the answer, geocoding  *)
(*                of the accommodation and of each day, image search       *)
(*   SpecPdf      handleExportPDF on the trip TripSummary has normalized   *)
(*   SpecLinkify  linkifyPlaces, character by character                    *)
(*   SpecClient   the page: TripForm's handleSubmit, TripChat's             *)
(*                handleRefine and the refine handler they talk to          *)
(*   SpecClientFair  SpecClient with requests that are answered in the end  *)
(*                                                                         *)
(* Text is a sequence of tokens.  A token is a string: the punctuation the *)
(* code's regular expressions and JSON.parse look at is one token per      *)
(* character ("{", "}", "[", "]", ",", ":", the quote, " ", "\n"), the     *)
(* code fence "```" is one token, and any other token is a word whose      *)
(* inside no regular expression of the code looks at.                      *)
(*                                                                         *)
(* A JavaScript value is a tagged record: undefined, null, bool b,         *)
(* num n, str s (s a text), obj f (f a function from keys, themselves      *)
(* texts, to values) and arr e (e a sequence of values).                   *)
(***************************************************************************)
EXTENDS Integers, Sequences, FiniteSets, TLC

VARIABLES
    data,             \* TripSummary: the data prop
    parsedData,       \* TripSummary: parsedData after step 3
    cleaned,          \* TripSummary: the sanitizer chain's output text
    readableSummary,  \* TripSummary: readableSummary
    outcome,          \* TripSummary: "idle", "null" (returned null), "rendered", "threw"
    groq,             \* generate: what the generation-source call will do
    gpc,              \* generate: the await the handler is suspended at, or "done"
    gdata,            \* generate: the handler's data
    dayIdx,           \* generate: the itinerary entry the for-of loop is at
    geoLog,           \* generate: the getCoordinates calls made so far
    response,         \* generate: the answer of the handler
    imageCall,        \* generate: what the image search answered, once it has
    pdfIn,            \* export: what the trip on screen holds and how its texts wrap
    ppc,              \* export: the block handleExportPDF writes next, or "done"
    y,                \* export: the vertical cursor
    page,             \* export: the page being written
    dayNo,            \* export: the itinerary entry being written
    detailNo,         \* export: the detail being written
    blocks,           \* export: the doc.text calls made so far
    saved,            \* export: the file name given to doc.save
    text,             \* linkify: the activity text
    destination,      \* linkify: the destination argument
    html,             \* linkify: the string returned
    links,            \* linkify: the matches that were given an anchor
    lpc,              \* linkify: "call" before the call, "done" after it
    tripData,         \* page: the tripData state of HomePage
    formLoading,      \* page: the loading state of TripForm
    chatLoading,      \* page: the loading state of TripChat
    message,          \* page: the message state of TripChat
    chatDef,          \* page: which of the two definitions in TripChat.tsx is in use
    alerts,           \* page: the alerts shown so far
    gen,              \* page: the generate request of handleSubmit
    ref,              \* page: the refine request of handleRefine and its handling
    issued,           \* page: the number of requests sent so far
    shownBy,          \* page: the request whose answer tripData was set from
    settled           \* page: the request that came back last, and how

summaryVars == <<data, parsedData, cleaned, readableSummary, outcome>>

generateVars == <<groq, gpc, gdata, dayIdx, geoLog, response, imageCall>>

pdfVars == <<pdfIn, ppc, y, page, dayNo, detailNo, blocks, saved>>

linkVars == <<text, destination, html, links, lpc>>

clientVars ==
    <<tripData, formLoading, chatLoading, message, chatDef, alerts, gen, ref, issued,
      shownBy, settled>>

vars == <<summaryVars, generateVars, pdfVars, linkVars, clientVars>>

----------------------------------------------------------------------------
(* JavaScript values *)

Q == "\""

\* the code fence, three backquotes (written with apostrophes: a TLA+ string
\* cannot hold a backquote)
Fence == "'''"

Undef == [t |-> "undefined"]

Null == [t |-> "null"]

Bool(b) == [t |-> "bool", b |-> b]

Num(n) == [t |-> "num", n |-> n]

Str(s) == [t |-> "str", s |-> s]

Obj(f) == [t |-> "obj", f |-> f]

Arr(e) == [t |-> "arr", e |-> e]

EmptyF == [x \in {} |-> Undef]

\* a one-word key
K(w) == <<w>>

\* the members of f, a member whose value is undefined left out
Prune(f) == [k \in {x \in DOMAIN f : f[x] # Undef} |-> f[k]]

\* !v
Truthy(v) ==
    CASE v.t = "undefined" -> FALSE
      [] v.t = "null" -> FALSE
      [] v.t = "bool" -> v.b
      [] v.t = "num" -> v.n # 0
      [] v.t = "str" -> Len(v.s) > 0
      [] OTHER -> TRUE

\* v.k throws a TypeError
ReadThrows(v) == v.t \in {"undefined", "null"}

\* v.k, for a v it does not throw on
Get(v, k) ==
    IF v.t = "obj" /\ K(k) \in DOMAIN v.f THEN v.f[K(k)] ELSE Undef

\* a || b
OrElse(a, b) == IF Truthy(a) THEN a ELSE b

IsPrimitive(v) == v.t \in {"bool", "num", "str"}

----------------------------------------------------------------------------
(* JSON.parse over tokens *)

WsTokens == {" ", "\n"}

NumTokens == {"0", "1", "2", "3", "4", "5", "100"}

NumOf(w) ==
    CASE w = "0" -> 0
      [] w = "1" -> 1
      [] w = "2" -> 2
      [] w = "3" -> 3
      [] w = "4" -> 4
      [] w = "5" -> 5
      [] w = "100" -> 100

Fail == [ok |-> FALSE, v |-> Undef, i |-> 0]

Done(v, i) == [ok |-> TRUE, v |-> v, i |-> i]

RECURSIVE SkipWs(_, _)
SkipWs(s, i) ==
    IF i <= Len(s) /\ s[i] \in WsTokens THEN SkipWs(s, i + 1) ELSE i

\* the index of the first token w at or after i, 0 when there is none
RECURSIVE IndexFrom(_, _, _)
IndexFrom(s, w, i) ==
    IF i > Len(s) THEN 0
    ELSE IF s[i] = w THEN i
    ELSE IndexFrom(s, w, i + 1)

\* a string literal opening at s[i]: every token up to the next quote; a raw
\* line break inside a literal is a SyntaxError
ParseString(s, i) ==
    LET j == IndexFrom(s, Q, i + 1) IN
    IF i > Len(s) \/ s[i] # Q \/ j = 0 THEN Fail
    ELSE IF \E k \in (i + 1)..(j - 1) : s[k] = "\n" THEN Fail
    ELSE Done(Str(SubSeq(s, i + 1, j - 1)), j + 1)

RECURSIVE ParseValue(_, _), ParseMembers(_, _, _, _), ParseElements(_, _, _, _)

ParseValue(s, i0) ==
    LET i == SkipWs(s, i0) IN
    IF i > Len(s) THEN Fail
    ELSE CASE s[i] = "{" -> ParseMembers(s, SkipWs(s, i + 1), EmptyF, TRUE)
           [] s[i] = "[" -> ParseElements(s, SkipWs(s, i + 1), <<>>, TRUE)
           [] s[i] = Q -> ParseString(s, i)
           [] s[i] = "null" -> Done(Null, i + 1)
           [] s[i] = "true" -> Done(Bool(TRUE), i + 1)
           [] s[i] = "false" -> Done(Bool(FALSE), i + 1)
           [] s[i] \in NumTokens -> Done(Num(NumOf(s[i])), i + 1)
           [] OTHER -> Fail

\* the members of an object, i past the blanks after "{" or ","; a later
\* duplicate key replaces the earlier one
ParseMembers(s, i, f, first) ==
    IF i > Len(s) THEN Fail
    ELSE IF first /\ s[i] = "}" THEN Done(Obj(f), i + 1)
    ELSE
      LET key == ParseString(s, i)
          j == SkipWs(s, key.i)
          val == ParseValue(s, j + 1)
          k == SkipWs(s, val.i)
          g == [x \in DOMAIN f \cup {key.v.s} |-> IF x = key.v.s THEN val.v ELSE f[x]]
      IN  IF ~key.ok \/ j > Len(s) \/ s[j] # ":" THEN Fail
          ELSE IF ~val.ok \/ k > Len(s) THEN Fail
          ELSE IF s[k] = "," THEN ParseMembers(s, SkipWs(s, k + 1), g, FALSE)
          ELSE IF s[k] = "}" THEN Done(Obj(g), k + 1)
          ELSE Fail

ParseElements(s, i, e, first) ==
    IF i > Len(s) THEN Fail
    ELSE IF first /\ s[i] = "]" THEN Done(Arr(e), i + 1)
    ELSE
      LET val == ParseValue(s, i)
          k == SkipWs(s, val.i)
      IN  IF ~val.ok \/ k > Len(s) THEN Fail
          ELSE IF s[k] = "," THEN ParseElements(s, SkipWs(s, k + 1), Append(e, val.v), FALSE)
          ELSE IF s[k] = "]" THEN Done(Arr(Append(e, val.v)), k + 1)
          ELSE Fail

\* JSON.parse(s): ok is FALSE where it throws a SyntaxError
JSONparse(s) ==
    LET r == ParseValue(s, 1) IN
    IF r.ok /\ SkipWs(s, r.i) = Len(s) + 1 THEN [ok |-> TRUE, v |-> r.v]
    ELSE [ok |-> FALSE, v |-> Undef]

----------------------------------------------------------------------------
(* JSON.stringify(v, null, 2) over tokens.  A function has no insertion     *)
(* order, so members are written in the order KeySeq picks.                 *)

NumTok(n) ==
    CASE n = 0 -> "0"
      [] n = 1 -> "1"
      [] n = 2 -> "2"
      [] n = 3 -> "3"
      [] n = 4 -> "4"
      [] n = 5 -> "5"
      [] n = 100 -> "100"
      [] OTHER -> "7"

RECURSIVE KeySeq(_)
KeySeq(S) ==
    IF S = {} THEN <<>>
    ELSE LET k == CHOOSE x \in S : TRUE IN <<k>> \o KeySeq(S \ {k})

RECURSIVE Indent(_)
Indent(d) == IF d = 0 THEN <<>> ELSE <<" ", " ">> \o Indent(d - 1)

RECURSIVE Stringify(_, _), StringifyAll(_, _, _, _)

Stringify(v, d) ==
    CASE v.t = "str" -> <<Q>> \o v.s \o <<Q>>
      [] v.t = "num" -> <<NumTok(v.n)>>
      [] v.t = "bool" -> IF v.b THEN <<"true">> ELSE <<"false">>
      [] v.t = "arr" ->
           IF v.e = <<>> THEN <<"[", "]">>
           ELSE <<"[">> \o StringifyAll(v, [i \in 1..Len(v.e) |-> i], 1, d + 1)
                \o <<"\n">> \o Indent(d) \o <<"]">>
      [] v.t = "obj" ->
           IF DOMAIN v.f = {} THEN <<"{", "}">>
           ELSE <<"{">> \o StringifyAll(v, KeySeq(DOMAIN v.f), 1, d + 1)
                \o <<"\n">> \o Indent(d) \o <<"}">>
      [] OTHER -> <<"null">>

\* the elements (members) of v named by ks, from the i-th on, one per line
StringifyAll(v, ks, i, d) ==
    IF i > Len(ks) THEN <<>>
    ELSE (IF i > 1 THEN <<",">> ELSE <<>>) \o <<"\n">> \o Indent(d)
         \o (IF v.t = "obj"
             THEN <<Q>> \o ks[i] \o <<Q, ":", " ">> \o Stringify(v.f[ks[i]], d)
             ELSE Stringify(v.e[ks[i]], d))
         \o StringifyAll(v, ks, i + 1, d)

----------------------------------------------------------------------------
(* TripSummary: the sanitizer chain *)

\* .replace(/^Summary\s*/i, "")
StripLabel(s) ==
    IF Len(s) > 0 /\ s[1] \in {"Summary", "summary", "SUMMARY"}
    THEN SubSeq(s, SkipWs(s, 2), Len(s))
    ELSE s

\* .replace(/```json|```/gi, "")
RECURSIVE StripFencesFrom(_, _)
StripFencesFrom(s, i) ==
    IF i > Len(s) THEN <<>>
    ELSE IF s[i] = Fence
         THEN IF i < Len(s) /\ s[i + 1] \in {"json", "JSON"}
              THEN StripFencesFrom(s, i + 2)
              ELSE StripFencesFrom(s, i + 1)
         ELSE <<s[i]>> \o StripFencesFrom(s, i + 1)

StripFences(s) == StripFencesFrom(s, 1)

\* the index of the last token w, 0 when there is none
RECURSIVE LastIndexFrom(_, _, _)
LastIndexFrom(s, w, i) ==
    IF i < 1 THEN 0
    ELSE IF s[i] = w THEN i
    ELSE LastIndexFrom(s, w, i - 1)

\* .replace(/^[^{]*({[\s\S]*})[^}]*$/m, "$1"): tried at offset 0 the pattern
\* takes everything before the first "{", the longest "{...}" and everything
\* after the last "}", so it matches the whole text exactly when a "}" follows
\* the first "{"; no later line start can match when offset 0 does not
KeepObject(s) ==
    LET a == IndexFrom(s, "{", 1)
        b == LastIndexFrom(s, "}", Len(s))
    IN  IF a > 0 /\ b > a THEN SubSeq(s, a, b) ELSE s

\* .replace(/,\s*([\]}])/g, "$1")
RECURSIVE StripCommasFrom(_, _)
StripCommasFrom(s, i) ==
    IF i > Len(s) THEN <<>>
    ELSE LET j == SkipWs(s, i + 1) IN
         IF s[i] = "," /\ j <= Len(s) /\ s[j] \in {"]", "}"}
         THEN <<s[j]>> \o StripCommasFrom(s, j + 1)
         ELSE <<s[i]>> \o StripCommasFrom(s, i + 1)

StripTrailingCommas(s) == StripCommasFrom(s, 1)

RECURSIVE TrimEnd(_)
TrimEnd(s) ==
    IF Len(s) > 0 /\ s[Len(s)] \in WsTokens THEN TrimEnd(SubSeq(s, 1, Len(s) - 1)) ELSE s

\* .trim()
Trim(s) == TrimEnd(SubSeq(s, SkipWs(s, 1), Len(s)))

\* the chain of TripSummary.tsx lines 18-23
Sanitize(s) == Trim(StripTrailingCommas(KeepObject(StripFences(StripLabel(s)))))

----------------------------------------------------------------------------
(* TripSummary: parsing, envelope unwrap, defaults, readable summary *)

Text(w) == Str(<<w>>)

ErrorTrip ==
    Obj((K("summary") :> Text("Error parsing response"))
        @@ (K("budget_breakdown") :> Obj(EmptyF))
        @@ (K("itinerary") :> Arr(<<>>)))

\* lines 14-30: a string is sanitized and parsed, a SyntaxError gives ErrorTrip
ParseStep(d) ==
    IF d.t # "str" THEN d
    ELSE LET r == JSONparse(Sanitize(d.s)) IN
         IF r.ok THEN r.v ELSE ErrorTrip

\* Unwrap that goes on unwrapping while a summary-bearing data field is found
RECURSIVE UnwrapAllLevels(_)
UnwrapAllLevels(p) ==
    IF Truthy(p) /\ Truthy(Get(p, "data")) /\ Truthy(Get(Get(p, "data"), "summary"))
    THEN UnwrapAllLevels(Get(p, "data"))
    ELSE p

\* lines 36-38
Unwrap(p) ==
    IF Truthy(p) /\ Truthy(Get(p, "data")) /\ Truthy(Get(Get(p, "data"), "summary"))
    THEN Get(p, "data")
    ELSE p

\* Defaults with ?? in place of ||: only null and undefined are replaced
DefaultsNullish(p) ==
    LET orElse(a, b) == IF a.t \in {"undefined", "null"} THEN b ELSE a IN
    Obj((K("summary") :> orElse(Get(p, "summary"), Text("No summary available")))
        @@ (K("budget_breakdown") :> orElse(Get(p, "budget_breakdown"), Obj(EmptyF)))
        @@ (K("accommodation") :> orElse(Get(p, "accommodation"), Obj(EmptyF)))
        @@ (K("itinerary") :> orElse(Get(p, "itinerary"), Arr(<<>>)))
        @@ (K("image") :> orElse(Get(p, "image"), Null)))

\* lines 41-47, for a p whose fields can be read
Defaults(p) ==
    Obj((K("summary") :> OrElse(Get(p, "summary"), Text("No summary available")))
        @@ (K("budget_breakdown") :> OrElse(Get(p, "budget_breakdown"), Obj(EmptyF)))
        @@ (K("accommodation") :> OrElse(Get(p, "accommodation"), Obj(EmptyF)))
        @@ (K("itinerary") :> OrElse(Get(p, "itinerary"), Arr(<<>>)))
        @@ (K("image") :> OrElse(Get(p, "image"), Null)))

\* lines 53-56
Readable(summary) ==
    IF summary.t = "str" THEN summary ELSE Str(Stringify(summary, 0))

\* the component up to line 56, as the values it leaves behind
TripSummary(d) ==
    IF ~Truthy(d)
    THEN [outcome |-> "null", parsedData |-> Undef, cleaned |-> <<>>,
          readableSummary |-> Undef]
    ELSE LET p == Unwrap(ParseStep(d))
             c == IF d.t = "str" THEN Sanitize(d.s) ELSE <<>>
         IN  IF ReadThrows(p)
             THEN [outcome |-> "threw", parsedData |-> p, cleaned |-> c,
                   readableSummary |-> Undef]
             ELSE [outcome |-> "rendered", parsedData |-> Defaults(p), cleaned |-> c,
                   readableSummary |-> Readable(Get(Defaults(p), "summary"))]

----------------------------------------------------------------------------
(* The payloads and texts TripSummary is shown *)

Field(k, v) == K(k) :> v

\* an itinerary entry as the generate prompt lays it out
Day(n, label) ==
    Obj(Field("day", Num(n)) @@ Field("summary", Text(label))
        @@ Field("details", Arr(<<Obj(Field("time", Text("Morning"))
                                     @@ Field("activity", Text("walk")))>>))
        @@ Field("estimated_cost", Num(100)))

SummaryVals ==
    <<Undef, Null, Str(<<>>), Text("x"), Num(0), Num(5), Obj(Field("text", Text("x")))>>

BudgetVals ==
    <<Undef, Null, Obj(EmptyF), Obj(Field("food", Num(100))), Text("cheap")>>

AccommodationVals ==
    <<Undef, Obj(EmptyF), Obj(Field("name", Text("Ritz"))), Num(0)>>

\* an entry the generate handler has given coordinates
DayAt(n, label, lat, lng) ==
    Obj(Field("lat", Num(lat)) @@ Field("lng", Num(lng)) @@ Day(n, label).f)

\* the last one is an enriched itinerary: a day that was resolved, a day that
\* was resolved to a place on the prime meridian, a day that was not resolved
ItineraryVals ==
    <<Undef, Null, Arr(<<>>), Arr(<<Day(1, "Louvre")>>),
      Arr(<<Day(1, "Louvre"), Day(1, "Seine")>>), Num(5), Str(<<>>),
      Arr(<<DayAt(1, "Louvre", 5, 4), DayAt(2, "Greenwich", 5, 0), Day(3, "Seine")>>)>>

ImageVals ==
    <<Undef, Null, Text("http://img"), Str(<<>>)>>

TripKeys ==
    {K("summary"), K("budget_breakdown"), K("accommodation"), K("itinerary"), K("image")}

\* the object whose five fields are the a-th, b-th, ... of the lists above
Payload(a, b, c, d, e) ==
    Obj(Prune(Field("summary", SummaryVals[a])
              @@ Field("budget_breakdown", BudgetVals[b])
              @@ Field("accommodation", AccommodationVals[c])
              @@ Field("itinerary", ItineraryVals[d])
              @@ Field("image", ImageVals[e])))

\* a trip nested under a data field
InnerTrip == Obj(Field("summary", Text("y")) @@ Field("itinerary", Arr(<<Day(1, "Seine")>>)))

Envelope(D) == Obj(Field("ok", Bool(TRUE)) @@ Field("data", D))

WithData(D) == Obj(Field("data", InnerTrip) @@ D.f)

WrapKinds == 1..4

\* the w-th way a payload D reaches the component
Wrapped(w, D) ==
    CASE w = 1 -> D
      [] w = 2 -> Envelope(D)
      [] w = 3 -> WithData(D)
      [] w = 4 -> Envelope(WithData(D))

Prefixes ==
    << <<>>,
       <<"Summary", " ">>,
       <<"prefix", " ">>,
       <<Fence, "json", "\n">>,
       <<"Here", " ", "you", " ", "go", ":", "\n", Fence, "\n">>,
       <<"Summary", ":", "\n">> >>

Bodies ==
    << <<"{", "}">>,
       <<"{", Q, "a", Q, ":", "1", "}">>,
       <<"{", Q, "a", Q, ":", "1", ",", "}">>,
       <<"{", Q, "a", Q, ":", "[", "1", ",", " ", "]", ",", "\n", "}">>,
       <<"{", Q, "summary", Q, ":", Q, "x", Q, ",", Q, "itinerary", Q, ":", "[", "]", "}">>,
       <<"{", Q, "a", Q, ":", Q, "x", ",", "}", Q, "}">>,
       <<"{", Q, "a", Q, ":", Q, "x", ",", " ", "]", Q, "}">>,
       <<"{", Q, "a", Q, ":", Q, "x", Fence, "y", Q, "}">>,
       <<"{", Q, "a", Q, ":", Q, "{", "b", "}", Q, "}">>,
       <<"{", Q, "a", Q, ":", Q, "}", "b", "{", Q, "}">>,
       <<"{", Q, "ok", Q, ":", "true", ",", Q, "data", Q, ":",
         "{", Q, "summary", Q, ":", Q, "x", Q, "}", "}">>,
       <<"{", Q, "summary", Q, ":", Q, "x", Q, "}", " ",
         "{", Q, "summary", Q, ":", Q, "y", Q, "}">>,
       <<"{", Q, "a", Q, ":", "1">>,
       <<"null">>,
       <<"5">>,
       <<Q, "x", Q>>,
       <<"[", "]">>,
       <<"oops">>,
       <<>> >>

Suffixes ==
    << <<>>,
       <<"\n", Fence>>,
       <<" ", "bye">>,
       <<"\n", "}">> >>

RawText(i, j, k) == Prefixes[i] \o Bodies[j] \o Suffixes[k]

OtherVals == <<Null, Undef, Str(<<>>), Num(0), Num(5), Bool(FALSE), Bool(TRUE), Arr(<<>>)>>

----------------------------------------------------------------------------
(* SpecSummary: TripSummary is handed a value and renders it *)

\* a decoded payload (what onGenerate and onRefined pass on)
PayloadInput ==
    \E w \in WrapKinds, a \in 1..Len(SummaryVals), b \in 1..Len(BudgetVals),
       c \in 1..Len(AccommodationVals), d \in 1..Len(ItineraryVals),
       e \in 1..Len(ImageVals) :
        data = Wrapped(w, Payload(a, b, c, d, e))

\* raw response text
TextInput ==
    \E i \in 1..Len(Prefixes), j \in 1..Len(Bodies), k \in 1..Len(Suffixes) :
        data = Str(RawText(i, j, k))

\* anything else a caller may pass
OtherInput ==
    \E i \in 1..Len(OtherVals) : data = OtherVals[i]

SummaryIdle ==
    /\ data = Null
    /\ parsedData = Undef
    /\ cleaned = <<>>
    /\ readableSummary = Undef
    /\ outcome = "idle"

GenerateIdle ==
    /\ groq = [kind |-> "none"]
    /\ gpc = "idle"
    /\ gdata = Undef
    /\ dayIdx = 0
    /\ geoLog = <<>>
    /\ response = [status |-> 0]
    /\ imageCall = [kind |-> "none", idx |-> 0]

PdfIdle ==
    /\ pdfIn = [destination |-> <<>>, summaryLines |-> 0, budget |-> 0,
                accommodation |-> 0, days |-> <<>>]
    /\ ppc = "idle"
    /\ y = 0
    /\ page = 0
    /\ dayNo = 0
    /\ detailNo = 0
    /\ blocks = <<>>
    /\ saved = <<>>

LinkIdle ==
    /\ text = <<>>
    /\ destination = Undef
    /\ html = <<>>
    /\ links = <<>>
    /\ lpc = "idle"

NoRequest == [pc |-> "idle", id |-> 0]

NoRefine ==
    [pc |-> "idle", id |-> 0, body |-> [t |-> "undefined"], basis |-> 0, reading |-> "none",
     groq |-> [kind |-> "none"], answer |-> [status |-> 0]]

NothingSettled == [id |-> 0, req |-> "none", reply |-> "none"]

ClientIdle ==
    /\ tripData = Null
    /\ formLoading = FALSE
    /\ chatLoading = FALSE
    /\ message = <<>>
    /\ alerts = <<>>
    /\ gen = NoRequest
    /\ ref = NoRefine
    /\ issued = 0
    /\ shownBy = 0
    /\ settled = NothingSettled

SummaryInit ==
    /\ PayloadInput \/ TextInput \/ OtherInput
    /\ parsedData = Undef
    /\ cleaned = <<>>
    /\ readableSummary = Undef
    /\ outcome = "idle"
    /\ GenerateIdle
    /\ PdfIdle
    /\ LinkIdle
    /\ ClientIdle /\ chatDef = 1

\* TripSummary({ data }), lines 10-56
Render ==
    LET r == TripSummary(data) IN
    /\ outcome = "idle"
    /\ parsedData' = r.parsedData
    /\ cleaned' = r.cleaned
    /\ readableSummary' = r.readableSummary
    /\ outcome' = r.outcome
    /\ UNCHANGED <<data, generateVars, pdfVars, linkVars, clientVars>>

SummaryNext == Render

SpecSummary == SummaryInit /\ [][SummaryNext]_vars

----------------------------------------------------------------------------
(* Claims about TripSummary, checked under SpecSummary *)

Field5(p, k) == p.f[K(k)]

\* the documented default of each top-level field
DefaultOf(k) ==
    CASE k = K("summary") -> Text("No summary available")
      [] k = K("budget_breakdown") -> Obj(EmptyF)
      [] k = K("accommodation") -> Obj(EmptyF)
      [] k = K("itinerary") -> Arr(<<>>)
      [] k = K("image") -> Null

Normalized == outcome \in {"rendered", "threw"}

\* C1: for every input that reaches normalization, normalization does not
\* throw and its output has summary a string, budget_breakdown a mapping,
\* accommodation an object, itinerary a sequence and image a string or null.
C1_NormalizerTotalAndTyped ==
    Normalized =>
        /\ outcome = "rendered"
        /\ readableSummary.t = "str"
        /\ Field5(parsedData, "budget_breakdown").t = "obj"
        /\ Field5(parsedData, "accommodation").t = "obj"
        /\ Field5(parsedData, "itinerary").t = "arr"
        /\ Field5(parsedData, "image").t \in {"str", "null"}

\* data is {ok: true, data: D} with D an object
IsEnvelope(d) ==
    /\ d.t = "obj"
    /\ Get(d, "ok") = Bool(TRUE)
    /\ Get(d, "data").t = "obj"

HasNestedTrip(D) == Truthy(Get(D, "data")) /\ Truthy(Get(Get(D, "data"), "summary"))

\* C8 as stated: for every payload {ok: true, data: D} where D carries a
\* summary, the output equals the output for D given directly.
C8_Original ==
    (outcome = "rendered" /\ IsEnvelope(data)
        /\ K("summary") \in DOMAIN Get(data, "data").f)
    => parsedData = TripSummary(Get(data, "data")).parsedData

\* C8 amended: for every payload {ok: true, data: D} where D's summary is
\* truthy, the output is the field defaulting of D itself (one level of
\* unwrapping, a data field inside D is not unwrapped again); it equals the
\* output for D given directly whenever D has no summary-bearing data field.
C8_UnwrapOneLevel ==
    (outcome = "rendered" /\ IsEnvelope(data)
        /\ Truthy(Get(Get(data, "data"), "summary")))
    => LET D == Get(data, "data") IN
       /\ \A k \in TripKeys :
            parsedData.f[k] = IF k \in DOMAIN D.f /\ Truthy(D.f[k]) THEN D.f[k]
                              ELSE DefaultOf(k)
       /\ ~HasNestedTrip(D) => parsedData = TripSummary(D).parsedData

\* an envelope whose D has a truthy summary and a summary-bearing data field of
\* its own has been rendered
C8_Witness ==
    /\ outcome = "rendered"
    /\ IsEnvelope(data)
    /\ Truthy(Get(Get(data, "data"), "summary"))
    /\ HasNestedTrip(Get(data, "data"))
    /\ Field5(parsedData, "summary") = Get(Get(data, "data"), "summary")

\* data is an object the unwrap step leaves alone
IsPlainPayload(d) == d.t = "obj" /\ ~HasNestedTrip(d)

\* C9 as stated: each top-level field that is absent (or null) is replaced by
\* its default and each field that is present is kept as given.
C9_Original ==
    (outcome = "rendered" /\ IsPlainPayload(data))
    => \A k \in TripKeys :
         parsedData.f[k] = IF k \in DOMAIN data.f /\ data.f[k] # Null THEN data.f[k]
                           ELSE DefaultOf(k)

\* C9 amended: {} yields the four defaults, and in general each top-level
\* field that is absent or falsy (null, false, 0, the empty string) is replaced
\* by its default and each field whose value is truthy is kept as given.
C9_Defaulting ==
    (outcome = "rendered" /\ IsPlainPayload(data))
    => /\ DOMAIN parsedData.f = TripKeys
       /\ \A k \in TripKeys :
            parsedData.f[k] = IF k \in DOMAIN data.f /\ Truthy(data.f[k]) THEN data.f[k]
                              ELSE DefaultOf(k)

\* the empty payload has been rendered to the defaults
C9_Witness ==
    /\ outcome = "rendered"
    /\ data = Obj(EmptyF)
    /\ Field5(parsedData, "summary") = Text("No summary available")
    /\ Field5(parsedData, "itinerary") = Arr(<<>>)

\* text that is a valid JSON object as it stands
IsCleanObjectText(d) ==
    d.t = "str" /\ JSONparse(d.s).ok /\ JSONparse(d.s).v.t = "obj"

\* C10: for every already-clean input the sanitizer's output decodes to the
\* value the input decodes to, and sanitizing the output again decodes
\* identically.
C10_SanitizerIdempotent ==
    (outcome # "idle" /\ IsCleanObjectText(data))
    => /\ JSONparse(cleaned) = JSONparse(data.s)
       /\ JSONparse(Sanitize(cleaned)) = JSONparse(cleaned)

----------------------------------------------------------------------------
(* The generate handler, POST of /api/generate: the texts the generation    *)
(* source may answer with                                                   *)

MaxDays == 2

Destination == "Paris"

DayLabels == <<"Louvre", "Seine", "Montmartre", "Versailles">>

Member(k, valueText) == <<Q, k, Q, ":">> \o valueText

Quoted(w) == <<Q, w, Q>>

\* the fields of an itinerary entry the prompt asks for
DayFields(i) ==
    Member("day", <<NumTok(i)>>) \o <<",">> \o Member("summary", Quoted(DayLabels[i]))
    \o <<",">> \o Member("estimated_cost", <<"100">>)

DayKinds == <<"plain", "withCoords", "null">>

\* the i-th itinerary entry as text: as asked for, with coordinates of the
\* model's own, or the literal null
DayText(kind, i) ==
    CASE kind = "plain" -> <<"{">> \o DayFields(i) \o <<"}">>
      [] kind = "withCoords" ->
           <<"{">> \o DayFields(i) \o <<",">> \o Member("lat", <<"5">>)
           \o <<",">> \o Member("lng", <<"4">>) \o <<"}">>
      [] kind = "null" -> <<"null">>

RECURSIVE DaysText(_, _)
DaysText(kinds, i) ==
    IF i > Len(kinds) THEN <<>>
    ELSE (IF i > 1 THEN <<",">> ELSE <<>>) \o DayText(DayKinds[kinds[i]], i)
         \o DaysText(kinds, i + 1)

AccommodationKinds == <<"absent", "named", "namedWithCoords", "unnamed">>

AccommodationText(kind) ==
    CASE kind = "absent" -> <<>>
      [] kind = "named" ->
           <<",">> \o Member("accommodation",
               <<"{">> \o Member("name", Quoted("Ritz")) \o <<",">>
               \o Member("price_per_night", <<"100">>) \o <<"}">>)
      [] kind = "namedWithCoords" ->
           <<",">> \o Member("accommodation",
               <<"{">> \o Member("name", Quoted("Ritz")) \o <<",">>
               \o Member("lat", <<"5">>) \o <<",">> \o Member("lng", <<"4">>) \o <<"}">>)
      [] kind = "unnamed" ->
           <<",">> \o Member("accommodation", <<"{", "}">>)

\* a trip as the prompt lays it out
TripText(kinds, acc) ==
    <<"{">> \o Member("summary", Quoted("A week in Paris")) \o <<",">>
    \o Member("budget_breakdown", <<"{">> \o Member("food", <<"100">>) \o <<"}">>)
    \o AccommodationText(AccommodationKinds[acc]) \o <<",">>
    \o Member("itinerary", <<"[">> \o DaysText(kinds, 1) \o <<"]">>)
    \o <<"}">>

TextWraps == 1..3

\* the trip text as it stands, inside commentary, or with a trailing comma
WrapText(w, body) ==
    CASE w = 1 -> body
      [] w = 2 -> <<"Here", " ", "is", " ", "your", " ", "trip", ":", "\n">> \o body
                  \o <<"\n", "Enjoy", "!">>
      [] w = 3 -> SubSeq(body, 1, Len(body) - 1) \o <<",", "}">>

\* answers that are not a trip object
OddTexts ==
    << <<"null">>, <<"5">>, <<"[", "]">>, Quoted("x"), <<"true">>, <<"oops">>, <<>>,
       <<"{">> \o Member("itinerary", Quoted("soon")) \o <<"}">>,
       <<"{">> \o Member("itinerary", <<"[", "5", "]">>) \o <<"}">>,
       <<"}", " ", "{">>, <<"sorry", "}">>,
       <<"prefix", " ", "{", Q, "a", Q, ":", "1", ",", "}">> >>

----------------------------------------------------------------------------
(* The generate handler: its steps *)

\* message.slice(start, end) with start = indexOf("{"), end = lastIndexOf("}") + 1
SliceObject(m) ==
    LET a == IndexFrom(m, "{", 1)
        b == LastIndexFrom(m, "}", Len(m))
    IN  IF a > 0 THEN (IF b >= a THEN SubSeq(m, a, b) ELSE <<>>)
        ELSE IF b = Len(m) /\ b > 0 THEN <<m[b]>> ELSE <<>>

\* lines 251-267: the message after the first parse attempt
MessageOf(content) ==
    LET m == IF Trim(content) = <<>> THEN <<"{", "}">> ELSE Trim(content) IN
    IF JSONparse(m).ok THEN m ELSE SliceObject(m)

\* lines 276-282
DataOf(content) ==
    LET m == MessageOf(content) IN
    IF JSONparse(m).ok THEN JSONparse(m).v
    ELSE Obj(Field("summary", Str(m)) @@ Field("budget_breakdown", Obj(EmptyF))
             @@ Field("itinerary", Arr(<<>>)))

\* o.k = v; on an array the property is set and is not serialized
SetField(o, k, v) ==
    IF o.t = "obj"
    THEN Obj([x \in DOMAIN o.f \cup {K(k)} |-> IF x = K(k) THEN v ELSE o.f[x]])
    ELSE o

\* a[i] of an array value
At(a, i) == IF a.t = "arr" /\ i \in 1..Len(a.e) THEN a.e[i] ELSE Undef

\* the geocoding service's reply for item i (0 is the accommodation): the
\* fetch rejects, the body holds no result, or it holds one location
GeoReplyKinds == {"throws", "empty", "found"}

GeoLat(i) == 10 + i

GeoLng(i) == 20 + i

GeoReply(kind, i) ==
    CASE kind = "throws" -> [throws |-> TRUE, json |-> Undef]
      [] kind = "empty" ->
           [throws |-> FALSE,
            json |-> Obj(Field("status", Text("ZERO_RESULTS")) @@ Field("results", Arr(<<>>)))]
      [] kind = "found" ->
           [throws |-> FALSE,
            json |-> Obj(Field("status", Text("OK"))
                         @@ Field("results", Arr(<<Obj(Field("geometry",
                              Obj(Field("location",
                                  Obj(Field("lat", Num(GeoLat(i)))
                                      @@ Field("lng", Num(GeoLng(i)))))))) >>)))]

\* getCoordinates, lines 106-127, on the reply its fetch gets
getCoordinates(reply) ==
    IF reply.throws \/ ReadThrows(reply.json) THEN Null
    ELSE LET loc == Get(Get(At(Get(reply.json, "results"), 1), "geometry"), "location") IN
         IF Truthy(loc)
         THEN Obj(Field("lat", Get(loc, "lat")) @@ Field("lng", Get(loc, "lng")))
         ELSE Null

\* an item that is replaced by its coordinates
OnlyCoords(item, coords) ==
    IF Truthy(coords)
    THEN Obj(Field("lat", Get(coords, "lat")) @@ Field("lng", Get(coords, "lng")))
    ELSE item

\* lines 297-300 and 306-309: item.lat = coords.lat; item.lng = coords.lng
WithCoords(item, coords) ==
    IF Truthy(coords)
    THEN SetField(SetField(item, "lat", Get(coords, "lat")), "lng", Get(coords, "lng"))
    ELSE item

\* the assignment of lines 307-308 throws on a primitive (module code is strict)
AssignThrows(item, coords) == Truthy(coords) /\ IsPrimitive(item)

\* a loop that gives up at the first entry that could not be resolved
NextDayStopOnMiss(i, coords) == IF Truthy(coords) THEN i + 1 ELSE i + MaxDays + 1

\* the for-of loop goes on to the next entry whatever coords was
NextDay(i, coords) == i + 1

Answer500 == [status |-> 500, ok |-> FALSE, data |-> Undef]

Answer200(d) == [status |-> 200, ok |-> TRUE, data |-> d]

\* the handler is left through its catch, lines 382-395
Throw ==
    /\ gpc' = "done"
    /\ response' = Answer500

\* lines 303-305 from entry i on: suspend at the next getCoordinates call, go
\* on to the image search after the last entry, throw on an entry that is null
LoopFrom(d, i) ==
    LET itinerary == Get(d, "itinerary") IN
    IF itinerary.t = "arr" /\ i <= Len(itinerary.e)
    THEN IF ReadThrows(itinerary.e[i])
         THEN Throw /\ dayIdx' = i
         ELSE gpc' = "day" /\ dayIdx' = i /\ UNCHANGED response
    ELSE gpc' = "image" /\ dayIdx' = i /\ UNCHANGED response

\* groq.chat.completions.create rejects
GroqFails ==
    /\ gpc = "groq"
    /\ groq.kind = "fails"
    /\ Throw
    /\ UNCHANGED <<groq, imageCall, gdata, dayIdx, geoLog, summaryVars, pdfVars, linkVars, clientVars>>

\* lines 245-295: the completion arrives, is decoded, and the handler runs to
\* its first await
GroqReturns ==
    /\ gpc = "groq"
    /\ groq.kind = "text"
    /\ LET d == DataOf(groq.content) IN
       /\ gdata' = d
       /\ IF ReadThrows(d) THEN Throw /\ UNCHANGED dayIdx
          ELSE IF Truthy(Get(Get(d, "accommodation"), "name"))
               THEN gpc' = "accommodation" /\ UNCHANGED <<response, dayIdx>>
               ELSE LoopFrom(d, 1)
    /\ UNCHANGED <<groq, imageCall, geoLog, summaryVars, pdfVars, linkVars, clientVars>>

\* lines 296-303: the accommodation's getCoordinates call returns
AccommodationGeocoded ==
    /\ gpc = "accommodation"
    /\ \E kind \in GeoReplyKinds :
        LET coords == getCoordinates(GeoReply(kind, 0))
            d == SetField(gdata, "accommodation",
                          WithCoords(Get(gdata, "accommodation"), coords))
        IN  /\ geoLog' = Append(geoLog, [item |-> 0, kind |-> kind])
            /\ gdata' = d
            /\ LoopFrom(d, 1)
    /\ UNCHANGED <<groq, imageCall, summaryVars, pdfVars, linkVars, clientVars>>

\* lines 305-310: the getCoordinates call of entry dayIdx returns
DayGeocoded ==
    /\ gpc = "day"
    /\ \E kind \in GeoReplyKinds :
        LET coords == getCoordinates(GeoReply(kind, dayIdx))
            itinerary == Get(gdata, "itinerary")
            day == itinerary.e[dayIdx]
            d == SetField(gdata, "itinerary",
                          Arr([itinerary.e EXCEPT ![dayIdx] = WithCoords(day, coords)]))
        IN  /\ geoLog' = Append(geoLog, [item |-> dayIdx, kind |-> kind])
            /\ IF AssignThrows(day, coords)
               THEN Throw /\ UNCHANGED <<gdata, dayIdx>>
               ELSE gdata' = d /\ LoopFrom(d, NextDay(dayIdx, coords))
    /\ UNCHANGED <<groq, imageCall, summaryVars, pdfVars, linkVars, clientVars>>

\* what the image search answers: the fetch rejects, a body without results,
\* an empty page, a result with a full variant, with a regular one only, with
\* neither, or a page of two results
ImageReplyKinds == {"throws", "noResults", "emptyPage", "full", "regular", "noUrls", "page"}

UrlsFull ==
    Obj(Field("urls", Obj(Field("full", Text("https://img/full"))
                          @@ Field("regular", Text("https://img/regular")))))

UrlsRegular == Obj(Field("urls", Obj(Field("regular", Text("https://img/other")))))

ImageReply(kind) ==
    CASE kind = "throws" -> [throws |-> TRUE, json |-> Undef]
      [] kind = "noResults" ->
           [throws |-> FALSE, json |-> Obj(Field("errors", Arr(<<Text("OAuth error")>>)))]
      [] kind = "emptyPage" -> [throws |-> FALSE, json |-> Obj(Field("results", Arr(<<>>)))]
      [] kind = "full" -> [throws |-> FALSE, json |-> Obj(Field("results", Arr(<<UrlsFull>>)))]
      [] kind = "regular" ->
           [throws |-> FALSE, json |-> Obj(Field("results", Arr(<<UrlsRegular>>)))]
      [] kind = "noUrls" ->
           [throws |-> FALSE, json |-> Obj(Field("results", Arr(<<Obj(EmptyF)>>)))]
      [] kind = "page" ->
           [throws |-> FALSE, json |-> Obj(Field("results", Arr(<<UrlsRegular, UrlsFull>>)))]

\* the values randomIndex can take, line 352 (as an index from 1)
RandomIndexes(reply) ==
    LET results == IF reply.throws \/ ReadThrows(reply.json) THEN Undef
                   ELSE Get(reply.json, "results")
    IN  IF results.t = "arr" /\ Len(results.e) > 0 THEN 1..Len(results.e) ELSE {1}

\* lines 350-362: the value given to data.image when randomIndex is idx
ImageOf(reply, idx) ==
    IF reply.throws \/ ReadThrows(reply.json) THEN Null
    ELSE LET chosen == At(Get(reply.json, "results"), idx)
             full == Get(Get(chosen, "urls"), "full")
             regular == Get(Get(chosen, "urls"), "regular")
         IN  IF Truthy(full) THEN Str(full.s \o <<"&w=1920&q=85">>)
             ELSE IF Truthy(regular) THEN Str(regular.s \o <<"&w=1920&q=85">>)
             ELSE Null

\* what new Date(date).getMonth() gives, line 329: a month from 0 for a date
\* that can be read, NaN for any other
Months == 0..11

DateVals == [valid : {TRUE}, month : Months] \cup {[valid |-> FALSE, month |-> 0]}

\* month < k, which is false when month is NaN
MonthBelow(date, k) == date.valid /\ date.month < k

\* a season of three months each, from January
SeasonByQuarter(date) ==
    IF MonthBelow(date, 3) THEN "winter"
    ELSE IF MonthBelow(date, 6) THEN "spring"
    ELSE IF MonthBelow(date, 9) THEN "summer"
    ELSE "autumn"

\* lines 330-337: the season of the image search query
Season(date) ==
    IF MonthBelow(date, 2) THEN "winter"
    ELSE IF MonthBelow(date, 5) THEN "spring"
    ELSE IF MonthBelow(date, 8) THEN "summer"
    ELSE "autumn"

\* lines 328-380: the season is worked out from the date of the request, the
\* image search returns, data.image is set (the assignment throws on a
\* primitive, in the try and again in its catch) and the handler answers
ImageFetched ==
    /\ gpc = "image"
    /\ \E kind \in ImageReplyKinds, date \in DateVals :
       \E idx \in RandomIndexes(ImageReply(kind)) :
        /\ imageCall' = [kind |-> kind, idx |-> idx, date |-> date, season |-> Season(date)]
        /\ IF IsPrimitive(gdata)
           THEN Throw /\ UNCHANGED gdata
           ELSE /\ gdata' = SetField(gdata, "image", ImageOf(ImageReply(kind), idx))
                /\ gpc' = "done"
                /\ response' = Answer200(gdata')
    /\ UNCHANGED <<groq, dayIdx, geoLog, summaryVars, pdfVars, linkVars, clientVars>>

\* the request has been read and the prompt sent: the generation source will
\* reject, or answer with a trip text or some other text
GenerateInit ==
    /\ \/ groq = [kind |-> "fails"]
       \/ \E n \in 0..MaxDays :
          \E kinds \in [1..n -> 1..Len(DayKinds)] :
          \E acc \in 1..Len(AccommodationKinds), w \in TextWraps :
            groq = [kind |-> "text", content |-> WrapText(w, TripText(kinds, acc))]
       \/ \E i \in 1..Len(OddTexts) :
            groq = [kind |-> "text", content |-> OddTexts[i]]
    /\ gpc = "groq"
    /\ gdata = Undef
    /\ dayIdx = 0
    /\ geoLog = <<>>
    /\ response = [status |-> 0]
    /\ imageCall = [kind |-> "none", idx |-> 0]
    /\ SummaryIdle
    /\ PdfIdle
    /\ LinkIdle
    /\ ClientIdle /\ chatDef = 1

GenerateNext ==
    GroqFails \/ GroqReturns \/ AccommodationGeocoded \/ DayGeocoded \/ ImageFetched

SpecGenerate == GenerateInit /\ [][GenerateNext]_vars

----------------------------------------------------------------------------
(* Claims about the generate handler, checked under SpecGenerate *)

Answered == gpc = "done" /\ groq.kind = "text"

\* C2: once the generation-source call has returned, every later failure is
\* absorbed and the handler answers ok:true (status 200) with a trip.
C2_LaterFailuresAbsorbed ==
    Answered => response.ok /\ response.status = 200

\* the getCoordinates calls made for item i (0 is the accommodation)
CallsFor(i) == {n \in 1..Len(geoLog) : geoLog[n].item = i}

Resolved(i) == \E n \in CallsFor(i) : geoLog[n].kind = "found"

\* item was given the coordinates found for i
HasCoordsOf(item, i) ==
    Get(item, "lat") = Num(GeoLat(i)) /\ Get(item, "lng") = Num(GeoLng(i))

SameCoords(item, before) ==
    Get(item, "lat") = Get(before, "lat") /\ Get(item, "lng") = Get(before, "lng")

NoCoords(item) == Get(item, "lat") = Undef /\ Get(item, "lng") = Undef

\* the accommodation of the returned trip depends on its own call alone
AccommodationOnItsOwn(sent, got) ==
    LET before == Get(sent, "accommodation")
        after == Get(got, "accommodation")
    IN  IF Truthy(Get(before, "name"))
        THEN /\ Cardinality(CallsFor(0)) = 1
             /\ IF Resolved(0) THEN HasCoordsOf(after, 0) ELSE SameCoords(after, before)
        ELSE CallsFor(0) = {} /\ after = before

DaysOf(d) == IF Get(d, "itinerary").t = "arr" THEN 1..Len(Get(d, "itinerary").e) ELSE {}

\* C3 as stated: in the returned trip a day whose call returned none or
\* errored has no lat/lng, every other day has the coordinates found for it
\* and the accommodation is resolved by its own call alone.
C3_Original ==
    (Answered /\ response.ok) =>
        LET sent == DataOf(groq.content) IN
        /\ AccommodationOnItsOwn(sent, response.data)
        /\ DaysOf(response.data) = DaysOf(sent)
        /\ \A i \in DaysOf(sent) :
            /\ Cardinality(CallsFor(i)) = 1
            /\ IF Resolved(i) THEN HasCoordsOf(At(Get(response.data, "itinerary"), i), i)
               ELSE NoCoords(At(Get(response.data, "itinerary"), i))

\* C3 amended: in the returned trip a day whose call returned none or errored
\* keeps the lat/lng the generation source gave it (none when it gave none),
\* every other day has the coordinates found for it and the accommodation is
\* resolved by its own call alone, whichever items fail.
C3_IndependentResolution ==
    (Answered /\ response.ok) =>
        LET sent == DataOf(groq.content) IN
        /\ AccommodationOnItsOwn(sent, response.data)
        /\ DaysOf(response.data) = DaysOf(sent)
        /\ \A i \in DaysOf(sent) :
            /\ Cardinality(CallsFor(i)) = 1
            /\ IF Resolved(i) THEN HasCoordsOf(At(Get(response.data, "itinerary"), i), i)
               ELSE SameCoords(At(Get(response.data, "itinerary"), i),
                               At(Get(sent, "itinerary"), i))

\* a trip was returned whose first day failed and has no coordinates while a
\* later day and the accommodation were resolved
C3_Witness ==
    /\ Answered /\ response.ok
    /\ 2 \in DaysOf(response.data)
    /\ ~Resolved(1) /\ CallsFor(1) # {}
    /\ NoCoords(At(Get(response.data, "itinerary"), 1))
    /\ Resolved(2) /\ HasCoordsOf(At(Get(response.data, "itinerary"), 2), 2)
    /\ Resolved(0) /\ HasCoordsOf(Get(response.data, "accommodation"), 0)

----------------------------------------------------------------------------
(* handleExportPDF: the document is laid out block by block under a        *)
(* vertical cursor y.  What doc.splitTextToSize makes of a text is its      *)
(* number of lines, which is what the layout depends on.                    *)

MaxPdfDays == 2

MaxDetails == 2

margin == 15

LineHeight == 6

DayLimit == 270

DetailLimit == 280

SummaryLineCounts == {1, 28, 33}

HeaderLineCounts == {1, 3}

DetailLineCounts == {1, 4}

\* one doc.text call: the cursor before the block (at), where it was drawn
\* (page, y), its lines, and whether doc.addPage was called just before it
Block(kind, day, pg, at, yy, lines, broke) ==
    [kind |-> kind, day |-> day, page |-> pg, at |-> at, y |-> yy,
     lines |-> lines, broke |-> broke]

\* a block written without looking at the cursor
Plain(kind, day, pg, yy, lines) == Block(kind, day, pg, yy, yy, lines, FALSE)

\* a page is added under a rule that never applies
NeverBreak(yy, lines, limit) == yy + lines * LineHeight > limit + limit

\* lines 153 and 166: if (y + split.length * 6 > limit) { addPage; y = margin }
BreakBefore(yy, lines, limit) == yy + lines * LineHeight > limit

\* lines 117-120: one line per entry of budget_breakdown
BudgetLines(n, yy) == [i \in 1..n |-> Plain("budget", 0, 1, yy + (i - 1) * LineHeight, 1)]

\* lines 124-138
AccommodationBlocks(lines, yy) ==
    IF lines = 0 THEN <<>>
    ELSE << Plain("accommodationHeading", 0, 1, yy, 1),
            Plain("accommodationName", 0, 1, yy + 8, 1),
            Plain("accommodationPrice", 0, 1, yy + 8 + LineHeight, 1),
            Plain("accommodationDescription", 0, 1, yy + 8 + 2 * LineHeight, lines) >>

AccommodationExtent(lines) ==
    IF lines = 0 THEN 0 ELSE 8 + 2 * LineHeight + lines * LineHeight + 8

\* the trip given to TripSummary, for a destination, a number of budget
\* categories, an accommodation and days with their details
BudgetKeys == <<"flights", "stay", "food">>

TripData(in) ==
    Obj((IF in.destination # <<>> THEN Field("destination", Str(in.destination)) ELSE EmptyF)
        @@ Field("summary", Text("A week in Paris"))
        @@ Field("budget_breakdown",
                 Obj([k \in {K(BudgetKeys[i]) : i \in 1..in.budget} |-> Num(100)]))
        @@ (IF in.accommodation > 0
            THEN Field("accommodation",
                       Obj(Field("name", Text("Ritz")) @@ Field("price_per_night", Num(100))
                           @@ Field("description", Text("Grand"))))
            ELSE EmptyF)
        @@ Field("itinerary",
                 Arr([i \in 1..Len(in.days) |->
                        Obj(Field("day", Num(i)) @@ Field("summary", Text(DayLabels[i]))
                            @@ Field("estimated_cost", Num(100))
                            @@ Field("details",
                                     Arr([j \in 1..Len(in.days[i].details) |->
                                            Obj(Field("time", Text("Morning"))
                                                @@ Field("activity", Text("Walk")))])))])))

\* line 117: Object.entries(parsedData.budget_breakdown).length
BudgetEntries(p) ==
    IF Get(p, "budget_breakdown").t = "obj"
    THEN Cardinality(DOMAIN Get(p, "budget_breakdown").f) ELSE 0

\* line 124: the description's lines when the accommodation has a name, else 0
AccommodationLines(p, in) ==
    IF Truthy(Get(Get(p, "accommodation"), "name")) THEN in.accommodation ELSE 0

\* lines 81-144: everything above the first day header, for the trip p whose
\* texts wrap as in says
Preamble(p, in) ==
    LET y1 == margin + 10
        y2 == IF Truthy(Get(p, "destination")) THEN y1 + 10 ELSE y1
        y3 == y2 + 8
        y4 == y3 + in.summaryLines * LineHeight + 6
        y5 == y4 + 8
        y6 == y5 + BudgetEntries(p) * LineHeight + 8
        y7 == y6 + AccommodationExtent(AccommodationLines(p, in))
    IN  [blocks |->
             <<Plain("title", 0, 1, margin, 1)>>
             \o (IF Truthy(Get(p, "destination"))
                 THEN <<Plain("destination", 0, 1, y1, 1)>> ELSE <<>>)
             \o <<Plain("summaryHeading", 0, 1, y2, 1),
                  Plain("summary", 0, 1, y3, in.summaryLines),
                  Plain("budgetHeading", 0, 1, y4, 1)>>
             \o BudgetLines(BudgetEntries(p), y5)
             \o AccommodationBlocks(AccommodationLines(p, in), y6)
             \o <<Plain("itineraryHeading", 0, 1, y7, 1)>>,
         y |-> y7 + 8]

\* line 181, with a destination that is a string when there is one
FileName(p) ==
    (IF Truthy(Get(p, "destination")) THEN Get(p, "destination").s ELSE <<"TripMind">>)
    \o <<"_Itinerary.pdf">>

\* line 148: parsedData.itinerary
Itinerary == Get(parsedData, "itinerary").e

\* line 162: day.details?.forEach
DetailsOf(d) ==
    IF Get(Itinerary[d], "details").t = "arr" THEN Get(Itinerary[d], "details").e ELSE <<>>

\* where the forEach of line 148 goes after the entry d
AfterDay(d) == IF d < Len(Itinerary) THEN "header" ELSE "save"

\* lines 80-144
ExportStarts ==
    /\ ppc = "start"
    /\ outcome = "rendered"
    /\ blocks' = Preamble(parsedData, pdfIn).blocks
    /\ y' = Preamble(parsedData, pdfIn).y
    /\ page' = 1
    /\ dayNo' = IF Itinerary = <<>> THEN 0 ELSE 1
    /\ ppc' = IF Itinerary = <<>> THEN "save" ELSE "header"
    /\ UNCHANGED <<pdfIn, detailNo, saved, summaryVars, generateVars, linkVars, clientVars>>

\* lines 149-160
DayHeaderWritten ==
    LET lines == pdfIn.days[dayNo].header
        broke == BreakBefore(y, lines, DayLimit)
        pg == IF broke THEN page + 1 ELSE page
        yy == IF broke THEN margin ELSE y
    IN  /\ ppc = "header"
        /\ blocks' = Append(blocks, Block("dayHeader", dayNo, pg, y, yy, lines, broke))
        /\ page' = pg
        /\ y' = yy + lines * LineHeight + 4
        /\ detailNo' = IF DetailsOf(dayNo) = <<>> THEN 0 ELSE 1
        /\ ppc' = IF DetailsOf(dayNo) = <<>> THEN "cost" ELSE "detail"
        /\ UNCHANGED <<pdfIn, dayNo, saved, summaryVars, generateVars, linkVars, clientVars>>

\* lines 162-174
DetailWritten ==
    LET lines == pdfIn.days[dayNo].details[detailNo]
        broke == BreakBefore(y, lines, DetailLimit)
        pg == IF broke THEN page + 1 ELSE page
        yy == IF broke THEN margin ELSE y
    IN  /\ ppc = "detail"
        /\ blocks' = Append(blocks, Block("detail", dayNo, pg, y, yy, lines, broke))
        /\ page' = pg
        /\ y' = yy + lines * LineHeight + 2
        /\ IF detailNo < Len(DetailsOf(dayNo))
           THEN detailNo' = detailNo + 1 /\ ppc' = "detail"
           ELSE detailNo' = 0 /\ ppc' = "cost"
        /\ UNCHANGED <<pdfIn, dayNo, saved, summaryVars, generateVars, linkVars, clientVars>>

\* lines 176-177
CostWritten ==
    /\ ppc = "cost"
    /\ blocks' = Append(blocks, Plain("cost", dayNo, page, y, 1))
    /\ y' = y + 10
    /\ ppc' = AfterDay(dayNo)
    /\ dayNo' = IF dayNo < Len(Itinerary) THEN dayNo + 1 ELSE 0
    /\ UNCHANGED <<pdfIn, page, detailNo, saved, summaryVars, generateVars, linkVars, clientVars>>

\* line 181
Saved ==
    /\ ppc = "save"
    /\ saved' = FileName(parsedData)
    /\ ppc' = "done"
    /\ UNCHANGED <<pdfIn, y, page, dayNo, detailNo, blocks, summaryVars, generateVars, linkVars, clientVars>>

DayLayouts ==
    {[header |-> h, details |-> ds] :
        h \in HeaderLineCounts,
        ds \in UNION {[1..n -> DetailLineCounts] : n \in 0..MaxDetails}}

\* TripSummary is given a trip and, once it is on screen, Export is pressed
PdfInit ==
    /\ \E dest \in {<<>>, <<"Paris">>}, sl \in SummaryLineCounts, acc \in {0, 2} :
       \E n \in 0..MaxPdfDays :
       \E ds \in [1..n -> DayLayouts] :
            pdfIn = [destination |-> dest, summaryLines |-> sl, budget |-> 2,
                     accommodation |-> acc, days |-> ds]
    /\ ppc = "start"
    /\ y = margin
    /\ page = 1
    /\ dayNo = 0
    /\ detailNo = 0
    /\ blocks = <<>>
    /\ saved = <<>>
    /\ data = TripData(pdfIn)
    /\ parsedData = Undef
    /\ cleaned = <<>>
    /\ readableSummary = Undef
    /\ outcome = "idle"
    /\ GenerateIdle
    /\ LinkIdle
    /\ ClientIdle /\ chatDef = 1

PdfNext == Render \/ ExportStarts \/ DayHeaderWritten \/ DetailWritten \/ CostWritten \/ Saved

SpecPdf == PdfInit /\ [][PdfNext]_vars

----------------------------------------------------------------------------
(* Claims about handleExportPDF, checked under SpecPdf *)

RECURSIVE SumOf(_)
SumOf(ns) == IF ns = <<>> THEN 0 ELSE Head(ns) + SumOf(Tail(ns))

\* the lines of a day: those of its header and of all its details
DayLines(d) == pdfIn.days[d].header + SumOf(pdfIn.days[d].details)

DayHeaders == {n \in 1..Len(blocks) : blocks[n].kind = "dayHeader"}

\* the header was put at the top of a page added for it
OnFreshPage(n) ==
    /\ blocks[n].page = blocks[n - 1].page + 1
    /\ blocks[n].y = margin

\* the header was put where the cursor stood
InPlace(n) ==
    /\ blocks[n].page = blocks[n - 1].page
    /\ blocks[n].y = blocks[n].at

\* C4 as stated: a day whose header lines plus all of its detail lines exceed
\* the space left on the page gets a page break before its header, which is
\* then drawn at the top margin.
C4_Original ==
    \A n \in DayHeaders :
        blocks[n].at + DayLines(blocks[n].day) * LineHeight > DetailLimit
            => OnFreshPage(n)

\* C4 amended: a day header gets a page break before it, and is drawn at the
\* top margin of the new page, exactly when its own lines would cross 270 from
\* the cursor; otherwise it is drawn where the cursor stands, however many
\* detail lines follow it.
C4_HeaderPagination ==
    \A n \in DayHeaders :
        IF blocks[n].at + blocks[n].lines * LineHeight > DayLimit
        THEN OnFreshPage(n)
        ELSE InPlace(n)

\* a day with details whose header crossed the limit was started on a new page
C4_Witness ==
    \E n \in DayHeaders :
        /\ blocks[n].at + blocks[n].lines * LineHeight > DayLimit
        /\ OnFreshPage(n)
        /\ pdfIn.days[blocks[n].day].details # <<>>
        /\ ppc = "done"

----------------------------------------------------------------------------
(* linkifyPlaces: a text is the sequence of its characters; the string      *)
(* returned is the sequence of the characters left alone and of the pieces  *)
(* of markup put around the matches.                                        *)

MaxLen == 5

MaxWords == 4

\* the {1,4} of placeRegex
MaxRepeats == 4

Upper == {"A", "B", "C", "D", "E", "F", "G", "H", "I", "J", "K", "L", "M", "N", "O", "P", "Q", "R", "S", "T", "U", "V", "W", "X", "Y", "Z"}

Lower == {"a", "b", "c", "d", "e", "f", "g", "h", "i", "j", "k", "l", "m", "n", "o", "p", "q", "r", "s", "t", "u", "v", "w", "x", "y", "z"}

Digits == {"0", "1", "2", "3", "4", "5", "6", "7", "8", "9"}

\* \w of a regular expression with the u flag and without the i flag
IsWordChar(c) == c \in Upper \cup Lower \cup Digits \cup {"_"}

\* [\p{L}\p{M}'-] and the typographic apostrophe, over the characters used here
IsNameChar(c) == c \in Upper \cup Lower \cup {"'", "-"}

\* \s
IsSpace(c) == c \in {" ", "\n"}

\* \b between the characters p and p + 1 of t
Boundary(t, p) ==
    (p >= 1 /\ IsWordChar(t[p])) # (p < Len(t) /\ IsWordChar(t[p + 1]))

\* the last index of the longest run of name characters that starts at i
RECURSIVE NameRunEnd(_, _)
NameRunEnd(t, i) ==
    IF i <= Len(t) /\ IsNameChar(t[i]) THEN NameRunEnd(t, i + 1) ELSE i - 1

RECURSIVE SpaceRunEnd(_, _)
SpaceRunEnd(t, i) ==
    IF i <= Len(t) /\ IsSpace(t[i]) THEN SpaceRunEnd(t, i + 1) ELSE i - 1

RECURSIVE NonSpaceRunEnd(_, _)
NonSpaceRunEnd(t, i) ==
    IF i <= Len(t) /\ ~IsSpace(t[i]) THEN NonSpaceRunEnd(t, i + 1) ELSE i - 1

\* [A-Z][\p{L}\p{M}'-]+ matches at i
StartsWord(t, i) == i + 1 <= Len(t) /\ t[i] \in Upper /\ IsNameChar(t[i + 1])

WordEnd(t, i) == NameRunEnd(t, i + 1)

\* where the words of the longest chain word (\s+ word)* from i start, n words
\* at most; every + and the {1,4} are greedy
RECURSIVE WordStarts(_, _, _)
WordStarts(t, i, n) ==
    IF n = 0 \/ ~StartsWord(t, i) THEN <<>>
    ELSE LET e == WordEnd(t, i)
             sp == SpaceRunEnd(t, e + 1)
         IN  <<i>> \o (IF sp > e THEN WordStarts(t, sp + 1, n - 1) ELSE <<>>)

\* the longest stretch of the last word, from st to p at most, after which \b
\* holds, or 0; the word keeps two characters at least
RECURSIVE EndAt(_, _, _)
EndAt(t, st, p) ==
    IF p < st + 1 THEN 0
    ELSE IF Boundary(t, p) THEN p
    ELSE EndAt(t, st, p - 1)

\* backtracking: the last word is shortened and then given up, down to two words
RECURSIVE MatchEndOf(_, _, _)
MatchEndOf(t, starts, k) ==
    IF k < 2 THEN 0
    ELSE LET e == EndAt(t, starts[k], WordEnd(t, starts[k])) IN
         IF e > 0 THEN e ELSE MatchEndOf(t, starts, k - 1)

\* line 63: the end of the match of placeRegex that starts at i, or 0
MatchEnd(t, i) ==
    IF ~Boundary(t, i - 1) THEN 0
    ELSE LET starts == WordStarts(t, i, MaxRepeats + 1) IN MatchEndOf(t, starts, Len(starts))

\* lines 66-67
firstWordEnd(t) ==
    LET a == SpaceRunEnd(t, 1)
        b == NonSpaceRunEnd(t, a + 1)
    IN  IF b > a THEN b ELSE 0

\* encodeURIComponent, over the characters used here
EncodeChar(c) ==
    CASE c = " " -> <<"%20">>
      [] c = "\n" -> <<"%0A">>
      [] c = "," -> <<"%2C">>
      [] OTHER -> <<c>>

RECURSIVE encodeURIComponent(_)
encodeURIComponent(cs) ==
    IF cs = <<>> THEN <<>> ELSE EncodeChar(Head(cs)) \o encodeURIComponent(Tail(cs))

AnchorOpen == "<a href=\"https://www.google.com/search?q="

AnchorMid == "\" target=\"_blank\" class=\"text-indigo-600 hover:underline\">"

AnchorClose == "</a>"

\* line 74: (match + " " + (destination ?? "")).trim()
Query(match, dest) ==
    Trim(match \o <<" ">> \o (IF dest.t = "str" THEN dest.s ELSE <<>>))

\* an anchor that displays the search query
AnchorShowingQuery(match, dest) ==
    <<AnchorOpen>> \o encodeURIComponent(Query(match, dest)) \o <<AnchorMid>>
    \o Query(match, dest) \o <<AnchorClose>>

\* line 75
Anchor(match, dest) ==
    <<AnchorOpen>> \o encodeURIComponent(Query(match, dest)) \o <<AnchorMid>>
    \o match \o <<AnchorClose>>

\* lines 69-76: text.replace(placeRegex, callback) from the character i on
RECURSIVE ReplaceFrom(_, _, _, _)
ReplaceFrom(t, i, dest, fwe) ==
    IF i > Len(t) THEN [html |-> <<>>, links |-> <<>>]
    ELSE LET e == MatchEnd(t, i) IN
         IF e = 0
         THEN LET r == ReplaceFrom(t, i + 1, dest, fwe) IN
              [html |-> <<t[i]>> \o r.html, links |-> r.links]
         ELSE LET m == SubSeq(t, i, e)
                  r == ReplaceFrom(t, e + 1, dest, fwe)
              IN  IF i - 1 < fwe
                  THEN [html |-> m \o r.html, links |-> r.links]
                  ELSE [html |-> Anchor(m, dest) \o r.html,
                        links |-> <<[offset |-> i - 1, match |-> m]>> \o r.links]

\* lines 58-77
linkifyPlaces(t, dest) ==
    IF t = <<>> THEN [html |-> <<>>, links |-> <<>>]
    ELSE ReplaceFrom(t, 1, dest, firstWordEnd(t))

Vocabulary ==
    << <<"V", "i", "s", "i", "t">>,
       <<"E", "i", "f", "f", "e", "l">>,
       <<"T", "o", "w", "e", "r">>,
       <<"t", "o", "d", "a", "y">>,
       <<"t", "h", "e">>,
       <<"d", "'", "O", "r", "s", "a", "y">>,
       <<"M", "u", "s", "e", "u", "m">> >>

RECURSIVE Sentence(_, _)
Sentence(ws, i) ==
    IF i > Len(ws) THEN <<>>
    ELSE (IF i > 1 THEN <<" ">> ELSE <<>>) \o Vocabulary[ws[i]] \o Sentence(ws, i + 1)

LinkAlphabet == {"A", "a", " ", "-", "1"}

Leads == {<<>>, <<"g", "o", " ">>}

Destinations == <<Undef, Str(<<>>), Str(<<"P", "a", "r", "i", "s">>), Str(<<"N", "e", "w", " ", "Y", "o", "r", "k">>)>>

\* an activity text: words of the vocabulary, or any short text after a lead
LinkInit ==
    /\ \/ \E n \in 1..MaxWords : \E ws \in [1..n -> 1..Len(Vocabulary)] :
            text = Sentence(ws, 1)
       \/ \E lead \in Leads, n \in 0..MaxLen : \E cs \in [1..n -> LinkAlphabet] :
            text = lead \o cs
    /\ \E d \in 1..Len(Destinations) : destination = Destinations[d]
    /\ html = <<>>
    /\ links = <<>>
    /\ lpc = "call"
    /\ SummaryIdle
    /\ GenerateIdle
    /\ PdfIdle
    /\ ClientIdle /\ chatDef = 1

Linkify ==
    /\ lpc = "call"
    /\ html' = linkifyPlaces(text, destination).html
    /\ links' = linkifyPlaces(text, destination).links
    /\ lpc' = "done"
    /\ UNCHANGED <<text, destination, summaryVars, generateVars, pdfVars, clientVars>>

LinkNext == Linkify

SpecLinkify == LinkInit /\ [][LinkNext]_vars

----------------------------------------------------------------------------
(* Claims about linkifyPlaces, checked under SpecLinkify *)

\* the first token is a capitalized word and a phrase of two or more
\* capitalized words follows it at once
LeadThenPhrase(t) ==
    /\ Len(WordStarts(t, 1, 3)) = 3
    /\ firstWordEnd(t) = WordEnd(t, 1)
    /\ IsWordChar(t[WordEnd(t, 1)])

\* the html with every anchor replaced by the text it displays
RECURSIVE StripAnchors(_)
StripAnchors(h) ==
    IF h = <<>> THEN <<>>
    ELSE IF Head(h) = AnchorOpen
         THEN StripAnchors(SubSeq(h, IndexFrom(h, AnchorMid, 1) + 1, Len(h)))
    ELSE IF Head(h) = AnchorClose THEN StripAnchors(Tail(h))
    ELSE <<Head(h)>> \o StripAnchors(Tail(h))

\* C5: when the first token is a capitalized word followed at once by a
\* capitalized phrase, exactly one anchor is emitted; it starts at the second
\* word, leaves the first token outside, and its target holds the encoded
\* phrase and destination.
C5_PhraseAfterFirstToken ==
    (lpc = "done" /\ LeadThenPhrase(text)) =>
        /\ Len(links) = 1
        /\ links[1].offset = WordStarts(text, 1, 3)[2] - 1
        /\ html = SubSeq(text, 1, links[1].offset)
                  \o Anchor(links[1].match, destination)
                  \o SubSeq(text, links[1].offset + Len(links[1].match) + 1, Len(text))

\* C6: putting the displayed text back in place of every anchor gives the
\* input text, character for character.
C6_NonDestructive ==
    lpc = "done" => StripAnchors(html) = text

\* an anchor was put inside a text, with characters before and after it
C6_Witness ==
    /\ lpc = "done"
    /\ Len(links) >= 1
    /\ links[1].offset > 0
    /\ links[1].offset + Len(links[1].match) < Len(text)
    /\ destination = Destinations[3]
    /\ html # text
    /\ StripAnchors(html) = text

\* the first letter of the token that starts at i is upper-case
RECURSIVE CapitalizedAt(_, _)
CapitalizedAt(t, i) ==
    IF i > Len(t) \/ IsSpace(t[i]) THEN FALSE
    ELSE IF t[i] \in Upper THEN TRUE
    ELSE IF t[i] \in Lower THEN FALSE
    ELSE CapitalizedAt(t, i + 1)

TokenStarts(t) == {i \in 1..Len(t) : ~IsSpace(t[i]) /\ (i = 1 \/ IsSpace(t[i - 1]))}

\* two whitespace-delimited words in a row are capitalized
HasCapitalizedRun(t) ==
    \E i \in TokenStarts(t) :
        /\ CapitalizedAt(t, i)
        /\ CapitalizedAt(t, SpaceRunEnd(t, NonSpaceRunEnd(t, i) + 1) + 1)

\* C7: a text without two capitalized words in a row is returned unchanged.
C7_NoRunUnchanged ==
    (lpc = "done" /\ ~HasCapitalizedRun(text)) => html = text /\ links = <<>>

----------------------------------------------------------------------------
(* Claims about sanitizing: the chain of TripSummary under SpecSummary, the *)
(* decoding steps of the generate handler under SpecGenerate                *)

\* the part of s from its first "{" to its last "}"
ObjectSpan(s) ==
    SubSeq(s, IndexFrom(s, "{", 1), LastIndexFrom(s, "}", Len(s)))

\* the handler has decoded the text the generation source answered with
Decoded == groq.kind = "text" /\ gpc # "groq"

\* s is prose without braces followed by an object that is valid JSON once the
\* commas in front of a closing bracket or brace are taken out
IsTrailingCommaText(s) ==
    /\ IndexFrom(s, "{", 1) > 0
    /\ s[Len(s)] = "}"
    /\ IndexFrom(s, "}", 1) > IndexFrom(s, "{", 1)
    /\ ~JSONparse(ObjectSpan(s)).ok
    /\ JSONparse(StripTrailingCommas(ObjectSpan(s))).ok
    /\ JSONparse(StripTrailingCommas(ObjectSpan(s))).v.t = "obj"

\* C11: a text of brace-free prose and an object with trailing commas is
\* decoded to the object without those commas, in the generate handler as in
\* the display component.
C11_TrailingCommaRecovered ==
    (Decoded /\ IsTrailingCommaText(groq.content)) =>
        \A k \in DOMAIN JSONparse(StripTrailingCommas(ObjectSpan(groq.content))).v.f :
            /\ k \in DOMAIN gdata.f
            /\ k \notin {K("accommodation"), K("itinerary"), K("image")} =>
                 gdata.f[k] = JSONparse(StripTrailingCommas(ObjectSpan(groq.content))).v.f[k]

\* s is commentary, label and fences around one valid JSON object
IsWrappedObject(s) ==
    /\ IndexFrom(s, "{", 1) > 0
    /\ LastIndexFrom(s, "}", Len(s)) > IndexFrom(s, "{", 1)
    /\ JSONparse(ObjectSpan(s)).ok

\* C12: of commentary, label and fences around a valid JSON object the
\* sanitizer keeps the span from the first "{" to the last "}" and yields
\* exactly the object that span decodes to.
C12_WrappedObjectExtracted ==
    (outcome # "idle" /\ data.t = "str" /\ IsWrappedObject(data.s)) =>
        JSONparse(cleaned) = JSONparse(ObjectSpan(data.s))

\* neither parse of lines 261-282 succeeded
DecodeFailed(content) == ~JSONparse(MessageOf(content)).ok

\* C13: when decoding fails the caller is handed a failure that carries the
\* original response text, unmodified.
C13_FailureCarriesOriginalText ==
    (Decoded /\ DecodeFailed(groq.content)) =>
        /\ gdata.t = "obj"
        /\ Get(gdata, "summary") = Str(groq.content)

\* the result of the catch of lines 279-282
IsFallback(d, content) ==
    /\ d.t = "obj"
    /\ Get(d, "summary") = Str(MessageOf(content))
    /\ Get(d, "budget_breakdown") = Obj(EmptyF)
    /\ Get(d, "itinerary") = Arr(<<>>)

LacksBraces(s) == IndexFrom(s, "{", 1) = 0 \/ IndexFrom(s, "}", 1) = 0

\* C14: an empty text, and a text without "{" or without "}", is reported as
\* a parse failure; no decoded payload is produced from it.
C14_NoBracesIsFailure ==
    (Decoded /\ LacksBraces(groq.content)) =>
        DecodeFailed(groq.content) /\ IsFallback(gdata, groq.content)

\* C15: when sanitization fails the trip handed on is the all-defaults trip
\* whose summary is the error marker: empty budget_breakdown, empty or no
\* accommodation, empty itinerary, no image.
C15_FailureGivesErrorTrip ==
    (Decoded /\ DecodeFailed(groq.content) /\ gpc = "done") =>
        /\ response.ok
        /\ Get(response.data, "summary") = Get(ErrorTrip, "summary")
        /\ Get(response.data, "budget_breakdown") = Obj(EmptyF)
        /\ Get(response.data, "accommodation") \in {Undef, Obj(EmptyF)}
        /\ Get(response.data, "itinerary") = Arr(<<>>)
        /\ Get(response.data, "image") \in {Undef, Null}

----------------------------------------------------------------------------
(* Claims about the summary the consumers of the trip are given *)

\* line 230: {readableSummary || "No summary available"}
SummaryOnScreen(r) == OrElse(r, Text("No summary available"))

\* line 106: doc.splitTextToSize(parsedData.summary, 180)
SummaryForRenderer(p) == Get(p, "summary")

IsNonEmptyString(v) == v.t = "str" /\ v.s # <<>>

\* C16: after normalization the summary is a non-empty string, a summary that
\* was not a string having been serialized, and that string is what the
\* screen and the document renderer are both given.
C16_SummaryIsString ==
    outcome = "rendered" =>
        /\ IsNonEmptyString(SummaryOnScreen(readableSummary))
        /\ IsNonEmptyString(SummaryForRenderer(parsedData))
        /\ SummaryForRenderer(parsedData) = SummaryOnScreen(readableSummary)

----------------------------------------------------------------------------
(* Claims about what enrichment does to the trip, under SpecGenerate *)

CoordKeys == {K("lat"), K("lng")}

\* after has every field of before with its value, lat and lng aside, and no
\* other field than those and lat and lng
SameButCoords(before, after) ==
    IF before.t = "obj"
    THEN /\ after.t = "obj"
         /\ DOMAIN before.f \subseteq DOMAIN after.f
         /\ DOMAIN after.f \subseteq DOMAIN before.f \cup CoordKeys
         /\ \A k \in DOMAIN before.f \ CoordKeys : after.f[k] = before.f[k]
    ELSE after = before

\* lat and lng of after are those of before wherever before had them
CoordsOnlyAdded(before, after) ==
    before.t = "obj" =>
        \A k \in DOMAIN before.f \cap CoordKeys : after.f[k] = before.f[k]

\* every field but accommodation, itinerary and image is as it was; the
\* accommodation and the days are as they were, lat and lng aside; the
\* itinerary has its length and order
FrameKept(sent, got) ==
    IF sent.t = "obj"
    THEN /\ got.t = "obj"
         /\ DOMAIN sent.f \subseteq DOMAIN got.f
         /\ DOMAIN got.f \subseteq DOMAIN sent.f \cup {K("image")}
         /\ \A k \in DOMAIN sent.f \ {K("accommodation"), K("itinerary"), K("image")} :
                got.f[k] = sent.f[k]
         /\ SameButCoords(Get(sent, "accommodation"), Get(got, "accommodation"))
         /\ IF Get(sent, "itinerary").t = "arr"
            THEN /\ Get(got, "itinerary").t = "arr"
                 /\ Len(Get(got, "itinerary").e) = Len(Get(sent, "itinerary").e)
                 /\ \A i \in DaysOf(sent) :
                        SameButCoords(At(Get(sent, "itinerary"), i), At(Get(got, "itinerary"), i))
            ELSE Get(got, "itinerary") = Get(sent, "itinerary")
         /\ K("image") \in DOMAIN got.f \ DOMAIN sent.f => got.f[K("image")].t \in {"null", "str"}
    ELSE got = sent

\* C17 as stated: enrichment removes and overwrites nothing; lat, lng and
\* image are only ever added.
C17_Original ==
    Decoded =>
        LET sent == DataOf(groq.content) IN
        /\ FrameKept(sent, gdata)
        /\ CoordsOnlyAdded(Get(sent, "accommodation"), Get(gdata, "accommodation"))
        /\ \A i \in DaysOf(sent) :
               CoordsOnlyAdded(At(Get(sent, "itinerary"), i), At(Get(gdata, "itinerary"), i))
        /\ (Answered /\ response.ok) => response.data = gdata

\* C17 amended: throughout the enrichment steps no field of the decoded trip
\* is removed and none but lat, lng and image is changed: summary,
\* budget_breakdown, the other fields of the accommodation, the itinerary's
\* length and order and the other fields of each day are as decoded; lat and
\* lng are set (added, or written over what the generation source gave) and
\* image is set to a URL or null; the trip returned is the trip so enriched.
C17_EnrichmentFrame ==
    Decoded =>
        /\ FrameKept(DataOf(groq.content), gdata)
        /\ (Answered /\ response.ok) => response.data = gdata

\* a trip came back with coordinates added to its accommodation and to a day
\* and with an image
C17_Witness ==
    /\ Answered /\ response.ok
    /\ LET sent == DataOf(groq.content) IN
       /\ Truthy(Get(Get(sent, "accommodation"), "name"))
       /\ NoCoords(Get(sent, "accommodation"))
       /\ HasCoordsOf(Get(response.data, "accommodation"), 0)
       /\ 1 \in DaysOf(sent)
       /\ NoCoords(At(Get(sent, "itinerary"), 1))
       /\ HasCoordsOf(At(Get(response.data, "itinerary"), 1), 1)
       /\ Get(response.data, "image").t = "str"

----------------------------------------------------------------------------
(* Claims about the image step, under SpecGenerate *)

ImageSearched == gpc = "done" /\ imageCall.kind # "none"

\* the urls of the search result that was chosen
ChosenUrls == Get(At(Get(ImageReply(imageCall.kind).json, "results"), imageCall.idx), "urls")

\* C18: the image is the "full" variant of the chosen result when it has one,
\* else its "regular" variant; when the search throws, has no results field
\* or has an empty list the image is null; in each case the handler answers
\* ok:true.
C18_ImageResolved ==
    ImageSearched =>
        /\ response.ok
        /\ Get(response.data, "image") =
             IF imageCall.kind \in {"throws", "noResults", "emptyPage"} THEN Null
             ELSE IF Get(ChosenUrls, "full").t = "str"
                  THEN Str(Get(ChosenUrls, "full").s \o <<"&w=1920&q=85">>)
             ELSE IF Get(ChosenUrls, "regular").t = "str"
                  THEN Str(Get(ChosenUrls, "regular").s \o <<"&w=1920&q=85">>)
             ELSE Null

----------------------------------------------------------------------------
(* Further claims about handleExportPDF, under SpecPdf *)

\* the y of the last line of the block n
LastLineY(n) == blocks[n].y + (blocks[n].lines - 1) * LineHeight

\* C19: every block is checked against the bottom threshold before it is
\* written, so no line of a block that fits on a page is drawn beyond the
\* bottom threshold of its page.
C19_EveryBlockPaginated ==
    \A n \in 1..Len(blocks) :
        margin + blocks[n].lines * LineHeight <= DetailLimit
            => LastLineY(n) <= DetailLimit

\* C20: a trip given to TripSummary with destination D is exported with the
\* destination line and saved as D followed by "_Itinerary.pdf"; the generic
\* name is used only when the trip has no destination.
C20_FileNamedFromDestination ==
    ppc = "done" =>
        IF Truthy(Get(data, "destination"))
        THEN /\ saved = Get(data, "destination").s \o <<"_Itinerary.pdf">>
             /\ \E n \in 1..Len(blocks) : blocks[n].kind = "destination"
        ELSE saved = <<"TripMind", "_Itinerary.pdf">>

----------------------------------------------------------------------------
(* The destination of the request and the order of the getCoordinates     *)
(* calls, under SpecGenerate                                               *)

\* C21: the trip the generate handler returns for a request with destination
\* D has destination = D (and so has the normalized trip TripSummary links
\* activity text with).
C21_DestinationEchoed ==
    (Answered /\ response.ok) => Get(response.data, "destination") = Text(Destination)

\* the items of the getCoordinates calls made so far, in the order of the calls
CalledItems == [n \in 1..Len(geoLog) |-> geoLog[n].item]

\* C23: in one run of the handler getCoordinates is called once for a named
\* accommodation and not at all for another, exactly once for each itinerary
\* entry, the accommodation first and the days in itinerary order, whatever
\* the earlier calls returned.
C23_GeocodeCallSequence ==
    Answered =>
        LET sent == DataOf(groq.content) IN
        /\ Cardinality(CallsFor(0))
             = IF Truthy(Get(Get(sent, "accommodation"), "name")) THEN 1 ELSE 0
        /\ \A i \in DaysOf(sent) : Cardinality(CallsFor(i)) = 1
        /\ \A m, n \in 1..Len(geoLog) : m < n => CalledItems[m] < CalledItems[n]

\* C24: for a start month m in 0..11 the season of the image search query is
\* winter for m in {0,1}, spring for {2,3,4}, summer for {5,6,7} and autumn
\* for {8,...,11}: one label for each month.
C24_SeasonBucket ==
    (imageCall.kind # "none" /\ imageCall.date.valid) =>
        LET m == imageCall.date.month IN
        /\ m \in 0..11
        /\ imageCall.season = CASE m \in {0, 1} -> "winter"
                                [] m \in {2, 3, 4} -> "spring"
                                [] m \in {5, 6, 7} -> "summer"
                                [] m \in {8, 9, 10, 11} -> "autumn"

\* an image search for a trip that starts in March
C24_Witness ==
    /\ imageCall.kind # "none"
    /\ imageCall.date.valid
    /\ imageCall.date.month = 2
    /\ imageCall.season = "spring"

----------------------------------------------------------------------------
(* Further claims about linkifyPlaces, under SpecLinkify *)

\* the stretch of t from character a to character b is made of whole words:
\* no letter, apostrophe or hyphen of t touches it from outside
WholeWords(t, a, b) ==
    /\ a = 1 \/ ~IsNameChar(t[a - 1])
    /\ b = Len(t) \/ ~IsNameChar(t[b + 1])

\* m is two to five capitalized words with whitespace between them
CapitalizedWords(m) ==
    /\ Cardinality(TokenStarts(m)) \in 2..(MaxRepeats + 1)
    /\ \A i \in TokenStarts(m) : m[i] \in Upper
    /\ \A i \in 1..Len(m) : IsNameChar(m[i]) \/ IsSpace(m[i])

\* C25: every anchor wraps a run of two to five consecutive capitalized words
\* of the text, separated only by whitespace, and no anchor starts inside the
\* first whitespace-delimited token of the text.
C25_AnchorsWrapCapitalizedWords ==
    lpc = "done" =>
        \A n \in 1..Len(links) :
            LET a == links[n].offset + 1
                b == links[n].offset + Len(links[n].match)
            IN  /\ links[n].match = SubSeq(text, a, b)
                /\ CapitalizedWords(links[n].match)
                /\ WholeWords(text, a, b)
                /\ links[n].offset >= firstWordEnd(text)

----------------------------------------------------------------------------
(* The itinerary that leaves the normalizer, under SpecSummary *)

\* C26: in every trip that leaves normalization the day numbers of the
\* itinerary are positive integers, pairwise distinct, each the 1-based
\* position of its entry.
C26_DayNumbersArePositions ==
    (outcome = "rendered" /\ Field5(parsedData, "itinerary").t = "arr") =>
        LET itinerary == Field5(parsedData, "itinerary").e IN
        /\ \A i \in 1..Len(itinerary) : Get(itinerary[i], "day") = Num(i)
        /\ \A i, j \in 1..Len(itinerary) :
              i # j => Get(itinerary[i], "day") # Get(itinerary[j], "day")

----------------------------------------------------------------------------
(* The locations given to the map, under SpecSummary *)

\* lines 319-323: the location made of an itinerary entry
Location(i) ==
    Obj(Field("lat", Get(i, "lat")) @@ Field("lng", Get(i, "lng"))
        @@ Field("name", Get(i, "summary")))

\* lines 317-324: itinerary.filter(i => i.lat && i.lng).map(...)
RECURSIVE Locations(_)
Locations(entries) ==
    IF entries = <<>> THEN <<>>
    ELSE (IF Truthy(Get(Head(entries), "lat")) /\ Truthy(Get(Head(entries), "lng"))
          THEN <<Location(Head(entries))>> ELSE <<>>)
         \o Locations(Tail(entries))

\* the entries that have a lat and a lng, with their summaries as names
RECURSIVE EnrichedDays(_)
EnrichedDays(entries) ==
    IF entries = <<>> THEN <<>>
    ELSE (IF Get(Head(entries), "lat") # Undef /\ Get(Head(entries), "lng") # Undef
          THEN <<Location(Head(entries))>> ELSE <<>>)
         \o EnrichedDays(Tail(entries))

\* C30: the locations given to the map are exactly the itinerary days whose
\* lat and lng are both set (a coordinate of 0 included), in itinerary order,
\* each named by its day's summary.
C30_MapShowsEnrichedDays ==
    (outcome = "rendered" /\ Field5(parsedData, "itinerary").t = "arr") =>
        Locations(Field5(parsedData, "itinerary").e)
            = EnrichedDays(Field5(parsedData, "itinerary").e)

----------------------------------------------------------------------------
(* The page.  HomePage keeps tripData and hands setTripData to TripForm    *)
(* (onGenerate) and to TripChat (onRefined); TripChat is on the page once  *)
(* tripData is truthy.  TripChat.tsx holds two definitions of the          *)
(* component, and chatDef is the one the page is built with.               *)

MaxRequests == 3

\* what JSON.stringify on the sending side and JSON.parse (res.json, req.json)
\* on the receiving side make of v: a member that is undefined is left out,
\* an element that is undefined becomes null, everything else is kept
RECURSIVE Wire(_)
Wire(v) ==
    CASE v.t = "obj" ->
           Obj([k \in {x \in DOMAIN v.f : v.f[x] # Undef} |-> Wire(v.f[k])])
      [] v.t = "arr" ->
           Arr([i \in 1..Len(v.e) |-> IF v.e[i] = Undef THEN Null ELSE Wire(v.e[i])])
      [] OTHER -> v

\* the trip the generate handler answers request id with
Trip(id) ==
    Obj(Field("summary", Text("A week in Paris"))
        @@ Field("budget_breakdown", Obj(Field("total", Num(id)))))

\* how a request comes back: a body with ok:true, a body with ok:false, a body
\* that is not JSON (res.json rejects), no answer at all (fetch rejects)
GenerateReplies == {"ok", "notOk", "nonJson", "network"}

\* the body the generate handler answers with
GenerateBody(kind, id) ==
    IF kind = "ok" THEN Obj(Field("ok", Bool(TRUE)) @@ Field("data", Trip(id)))
    ELSE Obj(Field("ok", Bool(FALSE)) @@ Field("error", Text("Failed to generate trip")))

RefinedText == <<"{", Q, "summary", Q, ":", Q, "Refined", Q, "}">>

\* what the generation source may answer a refinement prompt with: nothing, a
\* trip, a trip inside prose, prose, a trip with a trailing comma, braces the
\* wrong way round
RefineTexts ==
    << <<>>,
       RefinedText,
       <<"Sure", ":", " ">> \o RefinedText \o <<" ", "Enjoy">>,
       <<"oops">>,
       <<"{", Q, "summary", Q, ":", Q, "Refined", Q, ",", "}">>,
       <<"}", " ", "{">> >>

GroqReplies ==
    {[kind |-> "fails", content |-> <<>>]}
    \cup {[kind |-> "text", content |-> RefineTexts[i]] : i \in 1..Len(RefineTexts)}

\* the message of the refine handler
RefineMessage(content) ==
    IF Trim(content) = <<>> THEN <<"{", "}">> ELSE Trim(content)

\* message.slice(message.indexOf("{"), message.lastIndexOf("}") + 1): a start
\* of -1 counts from the end of the message
JsonPart(m) ==
    LET a == IndexFrom(m, "{", 1)
        b == LastIndexFrom(m, "}", Len(m))
    IN  IF a > 0 THEN (IF b >= a THEN SubSeq(m, a, b) ELSE <<>>)
        ELSE IF b = Len(m) /\ b > 0 THEN <<m[b]>> ELSE <<>>

\* a fallback to the empty trip
RefinedOrEmpty(jsonPart, currentTrip) ==
    IF JSONparse(jsonPart).ok THEN JSONparse(jsonPart).v ELSE Obj(EmptyF)

\* refinedTrip: the decoded span, or the previous trip when decoding throws
RefinedTrip(jsonPart, currentTrip) ==
    IF JSONparse(jsonPart).ok THEN JSONparse(jsonPart).v ELSE currentTrip

\* the answer of the refine handler to a request with this body, when reading
\* the request or the model call throws and when they do not
RefineAnswer(reading, body, reply) ==
    IF reading = "throws" \/ reply.kind = "fails"
    THEN [status |-> 500,
          body |-> Obj(Field("ok", Bool(FALSE)) @@ Field("error", Text("Failed to refine trip")))]
    ELSE [status |-> 200,
          body |-> Obj(Prune(Field("ok", Bool(TRUE))
                             @@ Field("data", RefinedTrip(JsonPart(RefineMessage(reply.content)),
                                                          Get(body, "currentTrip")))))]

\* handleSubmit up to its fetch
Submit ==
    /\ ~formLoading
    /\ issued < MaxRequests
    /\ formLoading' = TRUE
    /\ issued' = issued + 1
    /\ gen' = [pc |-> "flight", id |-> issued + 1]
    /\ UNCHANGED <<tripData, chatLoading, message, chatDef, alerts, ref, shownBy, settled,
                   summaryVars, generateVars, pdfVars, linkVars>>

\* handleSubmit from its fetch on
SubmitSettled ==
    /\ gen.pc = "flight"
    /\ \E kind \in GenerateReplies :
        /\ IF kind \in {"nonJson", "network"}
           THEN /\ alerts' = Append(alerts, "Something went wrong. Check your API route or key.")
                /\ UNCHANGED <<tripData, shownBy>>
           ELSE LET json == Wire(GenerateBody(kind, gen.id)) IN
                IF Truthy(Get(json, "ok"))
                THEN /\ tripData' = Get(json, "data")
                     /\ shownBy' = gen.id
                     /\ UNCHANGED alerts
                ELSE /\ alerts' = Append(alerts, "Error: Failed to generate trip")
                     /\ UNCHANGED <<tripData, shownBy>>
        /\ settled' = [id |-> gen.id, req |-> "generate", reply |-> kind]
    /\ formLoading' = FALSE
    /\ gen' = NoRequest
    /\ UNCHANGED <<chatLoading, message, chatDef, ref, issued, summaryVars, generateVars, pdfVars, linkVars>>

\* what the user types into the chat input
Feedbacks == {<<" ">>, <<"add a beach day">>}

\* onChange of the chat input, which the first definition disables while loading
Type ==
    /\ Truthy(tripData)
    /\ chatDef = 1 => ~chatLoading
    /\ \E m \in Feedbacks : m # message /\ message' = m
    /\ UNCHANGED <<tripData, formLoading, chatLoading, chatDef, alerts, gen, ref, issued,
                   shownBy, settled, summaryVars, generateVars, pdfVars, linkVars>>

\* the guard of handleRefine: !message.trim() in the first definition, !message
\* in the second
PassesGuard == IF chatDef = 1 THEN Trim(message) # <<>> ELSE message # <<>>

\* handleRefine up to its fetch, on a click of the Send button
Refine ==
    /\ Truthy(tripData)
    /\ ~chatLoading
    /\ PassesGuard
    /\ issued < MaxRequests
    /\ chatLoading' = TRUE
    /\ issued' = issued + 1
    /\ ref' = [pc |-> "flight", id |-> issued + 1,
               body |-> Wire(Obj(Field("currentTrip", tripData)
                                 @@ Field("feedback", Str(message)))),
               basis |-> shownBy, reading |-> "none",
               groq |-> [kind |-> "none", content |-> <<>>], answer |-> [status |-> 0]]
    /\ UNCHANGED <<tripData, formLoading, message, chatDef, alerts, gen, shownBy, settled,
                   summaryVars, generateVars, pdfVars, linkVars>>

\* POST of /api/refine
RefineHandled ==
    /\ ref.pc = "flight"
    /\ \/ ref' = [ref EXCEPT !.pc = "answered", !.reading = "throws",
                             !.answer = RefineAnswer("throws", ref.body, ref.groq)]
       \/ \E reply \in GroqReplies :
            ref' = [ref EXCEPT !.pc = "answered", !.reading = "read", !.groq = reply,
                               !.answer = RefineAnswer("read", ref.body, reply)]
    /\ UNCHANGED <<tripData, formLoading, chatLoading, message, chatDef, alerts, gen, issued,
                   shownBy, settled, summaryVars, generateVars, pdfVars, linkVars>>

Deliveries == {"json", "nonJson", "network"}

\* how the answer reached handleRefine
ReplyOf(how, answer) ==
    IF how # "json" THEN how ELSE IF Truthy(Get(answer, "ok")) THEN "ok" ELSE "notOk"

\* the first definition of handleRefine from its fetch on
FirstSettled(how, answer) ==
    /\ IF how = "json"
       THEN IF Truthy(Get(answer, "ok")) /\ Truthy(Get(answer, "data"))
            THEN /\ tripData' = Get(answer, "data")
                 /\ shownBy' = ref.id
                 /\ UNCHANGED alerts
            ELSE /\ alerts' = Append(alerts, "Something went wrong refining your trip.")
                 /\ UNCHANGED <<tripData, shownBy>>
       ELSE /\ alerts' = Append(alerts, "Network or API error")
            /\ UNCHANGED <<tripData, shownBy>>
    /\ chatLoading' = FALSE
    /\ message' = <<>>
    /\ ref' = [ref EXCEPT !.pc = "idle"]

\* the second definition of handleRefine from its fetch on: nothing catches a
\* fetch or a res.json that rejects
SecondSettled(how, answer) ==
    IF how = "json"
    THEN /\ tripData' = answer
         /\ shownBy' = ref.id
         /\ chatLoading' = FALSE
         /\ message' = <<>>
         /\ ref' = [ref EXCEPT !.pc = "idle"]
         /\ UNCHANGED alerts
    ELSE /\ ref' = [ref EXCEPT !.pc = "died"]
         /\ UNCHANGED <<tripData, shownBy, chatLoading, message, alerts>>

RefineSettled ==
    /\ ref.pc = "answered"
    /\ \E how \in Deliveries :
        LET answer == Wire(ref.answer.body) IN
        /\ IF chatDef = 1 THEN FirstSettled(how, answer) ELSE SecondSettled(how, answer)
        /\ settled' = [id |-> ref.id, req |-> "refine", reply |-> ReplyOf(how, answer)]
    /\ UNCHANGED <<formLoading, chatDef, gen, issued, summaryVars, generateVars, pdfVars, linkVars>>

ClientInit ==
    /\ ClientIdle
    /\ chatDef \in {1, 2}
    /\ SummaryIdle
    /\ GenerateIdle
    /\ PdfIdle
    /\ LinkIdle

ClientNext == Submit \/ SubmitSettled \/ Type \/ Refine \/ RefineHandled \/ RefineSettled

SpecClient == ClientInit /\ [][ClientNext]_vars

\* every request is answered or fails in the end, and the handler that waits
\* for it is resumed
SpecClientFair ==
    /\ SpecClient
    /\ WF_vars(SubmitSettled)
    /\ WF_vars(RefineHandled)
    /\ WF_vars(RefineSettled)

----------------------------------------------------------------------------
(* Claims about the page and the refine handler, under SpecClient and      *)
(* SpecClientFair                                                          *)

\* a request comes back in this step, and not with ok:true
FailureSettles == settled' # settled /\ settled'.reply # "ok"

\* C22: when a generation or refinement call fails (ok:false, a body that is
\* not JSON, no answer) an alert is shown and tripData stays as it was.
C22_FailureShownTripKept ==
    [][FailureSettles => (tripData' = tripData /\ Len(alerts') = Len(alerts) + 1)]_vars

\* the span of the model's answer cannot be decoded
Undecodable == ~JSONparse(JsonPart(RefineMessage(ref.groq.content))).ok

C28_LatestRequestWins ==
    [][/\ shownBy' >= shownBy
       /\ (shownBy' # shownBy /\ settled'.req = "refine") => ref.basis = shownBy]_vars

\* C29: whenever handleRefine has set loading, loading is reset and the
\* message cleared in the end, whatever the request comes to.
C29_LoadingReset == chatLoading ~> (~chatLoading /\ message = <<>>)

====
